---- MODULE Spec2Model ----
(***************************************************************************)
(* A model of the groceree recipe API: the auth handlers (register, login, *)
(* the bearer-token middleware), the recipe handlers and the user          *)
(* handlers, over the five tables of the schema and the image blob store.  *)
(*                                                                         *)
(* Strings are sequences of one-character strings, so that lower-casing,   *)
(* trimming, JSON escaping, base64 and header splitting are computed.      *)
(* A handler is a sequence of steps, one per awaited database or blob      *)
(* statement; steps of different requests interleave.                      *)
(***************************************************************************)
EXTENDS Integers, Sequences, FiniteSets, Bags, TLC

(* ------------------------------ bounds -------------------------------- *)

\* Requests in flight at once (clients, each sending one request at a time).
MaxProcs == 2
\* Longest username a client sends to the auth routes.
MaxNameLen == 1
\* Users the users table holds at most.
MaxUsers == 2

Procs == 1..MaxProcs

(* ------------------------------ characters ---------------------------- *)

\* The character U+03BB, which is outside Latin-1.
LambdaChar == "U+03BB"

\* Code points of the characters the model uses.
Code ==
  ("a" :> 97) @@ ("b" :> 98) @@ ("d" :> 100) @@ ("e" :> 101) @@ ("i" :> 105)
  @@ ("l" :> 108) @@ ("m" :> 109) @@ ("n" :> 110) @@ ("r" :> 114)
  @@ ("s" :> 115) @@ ("u" :> 117) @@ ("x" :> 120)
  @@ ("A" :> 65) @@ ("B" :> 66)
  @@ ("1" :> 49) @@ ("2" :> 50) @@ ("3" :> 51) @@ ("4" :> 52)
  @@ (" " :> 32) @@ ("!" :> 33) @@ ("\"" :> 34) @@ ("," :> 44) @@ (":" :> 58)
  @@ ("\\" :> 92) @@ ("{" :> 123) @@ ("}" :> 125)
  @@ (LambdaChar :> 955)

\* The character of a byte; a byte no character of the model has reads "?".
CharOf(b) ==
  IF \E c \in DOMAIN Code : Code[c] = b
  THEN CHOOSE c \in DOMAIN Code : Code[c] = b
  ELSE "?"

\* String.prototype.toLowerCase, on the characters of the model.
LowerChar(c) == IF c = "A" THEN "a" ELSE IF c = "B" THEN "b" ELSE c

toLowerCase(s) == [i \in 1..Len(s) |-> LowerChar(s[i])]

IsSpace(c) == c = " "

\* String.prototype.trim: drops the whitespace at both ends.
RECURSIVE trimStart(_)
trimStart(s) ==
  IF s # <<>> /\ IsSpace(Head(s)) THEN trimStart(Tail(s)) ELSE s

RECURSIVE trimEnd(_)
trimEnd(s) ==
  IF s # <<>> /\ IsSpace(s[Len(s)]) THEN trimEnd(SubSeq(s, 1, Len(s) - 1)) ELSE s

trim(s) == trimEnd(trimStart(s))

normalizeUsernameRaw(username) == username

normalizeUsername(username) == trim(toLowerCase(username))

(* ------------------------------ tokens -------------------------------- *)

\* The result of a call that returns a value or throws.
Ok(v) == [ok |-> TRUE, val |-> v]
Throw == [ok |-> FALSE, val |-> <<>>]

\* The JSON value null.
Null == [id |-> <<"n", "u", "l", "l">>, username |-> <<"n", "u", "l", "l">>, isNull |-> TRUE]
AuthUser(id, username) == [id |-> id, username |-> username, isNull |-> FALSE]

RECURSIVE escapeJSON(_)
escapeJSON(s) ==
  IF s = <<>> THEN <<>>
  ELSE IF Head(s) \in {"\"", "\\"} THEN <<"\\", Head(s)>> \o escapeJSON(Tail(s))
  ELSE <<Head(s)>> \o escapeJSON(Tail(s))

quoteJSON(s) == <<"\"">> \o escapeJSON(s) \o <<"\"">>

IdKey == <<"{", "\"", "i", "d", "\"", ":">>
UsernameKey == <<",", "\"", "u", "s", "e", "r", "n", "a", "m", "e", "\"", ":">>
NullText == <<"n", "u", "l", "l">>

\* JSON.stringify of an AuthUser {id, username} (or of null).
stringifyJSONUnescaped(user) ==
  IF user.isNull THEN NullText
  ELSE IdKey \o <<"\"">> \o user.id \o <<"\"">>
       \o UsernameKey \o <<"\"">> \o user.username \o <<"\"">> \o <<"}">>

stringifyJSON(user) ==
  IF user.isNull THEN NullText
  ELSE IdKey \o quoteJSON(user.id) \o UsernameKey \o quoteJSON(user.username) \o <<"}">>

StartsAt(text, i, lit) ==
  /\ i + Len(lit) - 1 <= Len(text)
  /\ \A k \in 1..Len(lit) : text[i + k - 1] = lit[k]

\* The characters of a JSON string literal whose body starts at text[i], up to
\* its closing quote: [ok, val, next], next the index after the closing quote.
RECURSIVE parseStringBody(_, _, _)
parseStringBody(text, i, acc) ==
  IF i > Len(text) THEN [ok |-> FALSE, val |-> <<>>, next |-> i]
  ELSE IF text[i] = "\"" THEN [ok |-> TRUE, val |-> acc, next |-> i + 1]
  ELSE IF text[i] = "\\"
    THEN IF i + 1 <= Len(text) /\ text[i + 1] \in {"\"", "\\"}
         THEN parseStringBody(text, i + 2, Append(acc, text[i + 1]))
         ELSE [ok |-> FALSE, val |-> <<>>, next |-> i]
  ELSE parseStringBody(text, i + 1, Append(acc, text[i]))

parseString(text, i) ==
  IF i <= Len(text) /\ text[i] = "\""
  THEN parseStringBody(text, i + 1, <<>>)
  ELSE [ok |-> FALSE, val |-> <<>>, next |-> i]

\* JSON.parse, on the texts the model's clients send: null, an object
\* {"id": string, "username": string}, or a text that is no JSON at all.
parseJSON(text) ==
  IF text = NullText THEN Ok(Null)
  ELSE IF ~StartsAt(text, 1, IdKey) THEN Throw
  ELSE LET a == parseString(text, Len(IdKey) + 1) IN
    IF ~a.ok \/ ~StartsAt(text, a.next, UsernameKey) THEN Throw
    ELSE LET b == parseString(text, a.next + Len(UsernameKey)) IN
      IF b.ok /\ b.next = Len(text) /\ text[b.next] = "}"
      THEN Ok(AuthUser(a.val, b.val))
      ELSE Throw

B64Chars ==
  << "A", "B", "C", "D", "E", "F", "G", "H", "I", "J", "K", "L", "M",
     "N", "O", "P", "Q", "R", "S", "T", "U", "V", "W", "X", "Y", "Z",
     "a", "b", "c", "d", "e", "f", "g", "h", "i", "j", "k", "l", "m",
     "n", "o", "p", "q", "r", "s", "t", "u", "v", "w", "x", "y", "z",
     "0", "1", "2", "3", "4", "5", "6", "7", "8", "9", "+", "/" >>

B64Set == {B64Chars[i] : i \in DOMAIN B64Chars}

\* The six-bit value of a base64 character.
B64Val(c) == (CHOOSE i \in DOMAIN B64Chars : B64Chars[i] = c) - 1

\* btoa: throws on a character above U+00FF; else the base64 text of the bytes.
btoa(text) ==
  IF \E i \in 1..Len(text) : Code[text[i]] > 255 THEN Throw
  ELSE LET n == Len(text)
           byte(i) == IF i <= n THEN Code[text[i]] ELSE 0
           out(k) ==
             LET g == (k - 1) \div 4
                 j == (k - 1) % 4
                 b0 == byte(3 * g + 1)
                 b1 == byte(3 * g + 2)
                 b2 == byte(3 * g + 3)
             IN CASE j = 0 -> B64Chars[(b0 \div 4) + 1]
                  [] j = 1 -> B64Chars[((b0 % 4) * 16 + (b1 \div 16)) + 1]
                  [] j = 2 -> IF 3 * g + 2 <= n
                              THEN B64Chars[((b1 % 16) * 4 + (b2 \div 64)) + 1]
                              ELSE "="
                  [] j = 3 -> IF 3 * g + 3 <= n THEN B64Chars[(b2 % 64) + 1] ELSE "="
       IN Ok([k \in 1..(4 * ((n + 2) \div 3)) |-> out(k)])

\* atob: the forgiving base64 decode; throws on a text that is no base64.
atob(tok) ==
  LET n == Len(tok)
      d == IF n % 4 = 0 /\ n >= 2 /\ tok[n] = "=" /\ tok[n - 1] = "="
             THEN SubSeq(tok, 1, n - 2)
           ELSE IF n % 4 = 0 /\ n >= 1 /\ tok[n] = "="
             THEN SubSeq(tok, 1, n - 1)
           ELSE tok
      m == Len(d)
  IN IF m % 4 = 1 \/ \E i \in 1..m : d[i] \notin B64Set THEN Throw
     ELSE LET v(i) == B64Val(d[i])
              byte(k) ==
                LET off == 8 * (k - 1)
                    i == (off \div 6) + 1
                    r == off % 6
                IN CASE r = 0 -> v(i) * 4 + (v(i + 1) \div 16)
                     [] r = 2 -> (v(i) % 16) * 16 + (v(i + 1) \div 4)
                     [] r = 4 -> (v(i) % 4) * 64 + v(i + 1)
          IN Ok([k \in 1..((m * 6) \div 8) |-> CharOf(byte(k))])

\* generateToken: btoa(JSON.stringify(user)); throws when btoa throws.
generateTokenUnescaped(user) == btoa(stringifyJSONUnescaped(user))

generateToken(user) == btoa(stringifyJSON(user))

Bearer == <<"B", "e", "a", "r", "e", "r", " ">>

\* The header value no request header gives (c.req.header returns undefined).
NoHeader == <<"undefined">>

\* String.prototype.split(' '): the pieces between the spaces.
RECURSIVE splitSpace(_, _)
splitSpace(s, cur) ==
  IF s = <<>> THEN <<cur>>
  ELSE IF Head(s) = " " THEN <<cur>> \o splitSpace(Tail(s), <<>>)
  ELSE splitSpace(Tail(s), Append(cur, Head(s)))

\* authMiddleware up to the call of next(): the status it answers with (0 when it
\* lets the request through) and the user it sets.
authMiddlewareLenient(authHeader) ==
  IF authHeader = NoHeader \/ ~StartsAt(authHeader, 1, Bearer)
  THEN [status |-> 401, user |-> Null]
  ELSE LET token == splitSpace(authHeader, <<>>)[2]
           bin == atob(token)
           decoded == IF bin.ok THEN parseJSON(bin.val) ELSE Throw
       IN IF decoded.ok THEN [status |-> 0, user |-> decoded.val]
          ELSE [status |-> 0, user |-> Null]

authMiddleware(authHeader) ==
  IF authHeader = NoHeader \/ ~StartsAt(authHeader, 1, Bearer)
  THEN [status |-> 401, user |-> Null]
  ELSE LET token == splitSpace(authHeader, <<>>)[2]
           bin == atob(token)
           decoded == IF bin.ok THEN parseJSON(bin.val) ELSE Throw
       IN IF decoded.ok THEN [status |-> 0, user |-> decoded.val]
          ELSE [status |-> 401, user |-> Null]


(* ------------------------------ state --------------------------------- *)

VARIABLES
  users,         \* the rows of the users table
  recipes,       \* the rows of the recipes table
  ingredients,   \* the rows of the ingredients table, a bag of [recipeId, name]
  instructions,  \* the rows of the instructions table, a bag of [recipeId, step]
  userFavorites, \* the rows of the user_favorites table, a bag of [userId, recipeId]
  blobs,         \* the keys of the objects in the R2 bucket
  clock,         \* recipes inserted so far and Date.now()
  reqs           \* per client: its request in flight, or its last answered request

db == <<users, recipes, ingredients, instructions, userFavorites>>
vars == <<users, recipes, ingredients, instructions, userFavorites, blobs, clock, reqs>>

\* A client that has sent nothing yet.
NoRequest ==
  [op |-> "none", pc |-> "done", hdr |-> NoHeader, user |-> Null,
   arg |-> <<>>, loc |-> <<>>, status |-> 0, token |-> <<>>]

Pending(p) == reqs[p].pc # "done"

\* The answer to the request of client p: a status and, from the auth routes, a token.
Respond(p, r, status, token) ==
  reqs' = [reqs EXCEPT ![p] = [r EXCEPT !.pc = "done", !.status = status, !.token = token]]

Init ==
  /\ users = {}
  /\ recipes = {}
  /\ ingredients = EmptyBag
  /\ instructions = EmptyBag
  /\ userFavorites = EmptyBag
  /\ blobs = {}
  /\ clock = [recipes |-> 0, now |-> 0]
  /\ reqs = [p \in Procs |-> NoRequest]

(* ------------------------------ auth handlers ------------------------- *)

Alphabet == {"a", "A", " ", "\"", LambdaChar}

SeqsUpTo(S, n) == UNION {[1..k -> S] : k \in 0..n}

\* The usernames and passwords clients send to /register and /login.
RawUsernames == SeqsUpTo(Alphabet, MaxNameLen)
RegisterPasswords == {"pw1"}
LoginPasswords == {"pw1", "pw2"}

Digits == <<"1", "2", "3", "4">>

\* lower(hex(randomblob(16))): an id no stored row has.
FreshUserId == <<Digits[Cardinality(users) + 1]>>

\* select ... from users where username = ? (.get(): one row, or none)
UsersByUsername(username) == {u \in users : u.username = username}

\* insert into users: the UNIQUE constraint on username refuses a second row.
UsersInsertNoUnique(row) == TRUE

UsersInsertAllowed(row) == UsersByUsername(row.username) = {}

RegisterBody ==
  [username : RawUsernames, password : RegisterPasswords, firstName : {"Ann"}, lastName : {"Lee"}]

\* POST /api/auth/register, up to the answer of the existence check.
RegisterWith(p, bodies) ==
  /\ ~Pending(p)
  /\ Cardinality(users) + Cardinality({q \in Procs : reqs[q].pc = "insertUser"}) < MaxUsers
  /\ \E body \in bodies :
       LET normalizedUsername == normalizeUsername(body.username)
           r == [NoRequest EXCEPT !.op = "register", !.arg = body]
       IN IF UsersByUsername(normalizedUsername) # {}
          THEN Respond(p, r, 400, <<>>)
          ELSE reqs' = [reqs EXCEPT ![p] = [r EXCEPT !.pc = "insertUser"]]
  /\ UNCHANGED <<db, blobs, clock>>

Register(p) == RegisterWith(p, RegisterBody)

\* POST /api/auth/register, from the insert on.
RegisterInsert(p) ==
  LET r == reqs[p]
      row == [id |-> FreshUserId,
              firstName |-> r.arg.firstName,
              lastName |-> r.arg.lastName,
              username |-> normalizeUsername(r.arg.username),
              password |-> r.arg.password,
              imageUrl |-> <<>>,
              bio |-> "Hi, I'm new here!"]
      token == generateToken(AuthUser(row.id, row.username))
  IN /\ r.pc = "insertUser"
     /\ IF ~UsersInsertAllowed(row)
        THEN /\ Respond(p, r, 500, <<>>)
             /\ UNCHANGED users
        ELSE /\ users' = users \cup {row}
             /\ IF token.ok THEN Respond(p, r, 200, token.val)
                ELSE Respond(p, r, 500, <<>>)
     /\ UNCHANGED <<recipes, ingredients, instructions, userFavorites, blobs, clock>>

LoginBody == [username : RawUsernames, password : LoginPasswords]

LoginAnyPassword(user, body) == user = {}

LoginRefused(user, body) ==
  user = {} \/ (CHOOSE u \in user : TRUE).password # body.password

\* POST /api/auth/login
Login(p) ==
  /\ ~Pending(p)
  /\ \E body \in LoginBody :
       LET user == UsersByUsername(normalizeUsername(body.username))
           r == [NoRequest EXCEPT !.op = "login", !.arg = body]
       IN IF LoginRefused(user, body)
          THEN Respond(p, r, 401, <<>>)
          ELSE LET u == CHOOSE u \in user : TRUE
                   token == generateToken(AuthUser(u.id, u.username))
               IN IF token.ok THEN Respond(p, r, 200, token.val)
                  ELSE Respond(p, r, 500, <<>>)
  /\ UNCHANGED <<db, blobs, clock>>

NextAuth == \E p \in Procs : Register(p) \/ RegisterInsert(p) \/ Login(p)

SpecAuth == Init /\ [][NextAuth]_vars

(* ------------------------------ protected routes ---------------------- *)

\* Recipes the recipes table is given in all (the ids lower(hex(randomblob(16)))
\* hands out are never reused).
MaxRecipes == 1

UserRow(id, username) ==
  [id |-> id, firstName |-> "Ann", lastName |-> "Lee", username |-> username,
   password |-> "pw1", imageUrl |-> <<>>, bio |-> "Hi, I'm new here!"]

\* The users table after the registrations of "a" and of "b".
RegisteredUsers == {UserRow(<<"1">>, <<"a">>), UserRow(<<"2">>, <<"b">>)}

InitRegistered ==
  /\ users = RegisteredUsers
  /\ recipes = {}
  /\ ingredients = EmptyBag
  /\ instructions = EmptyBag
  /\ userFavorites = EmptyBag
  /\ blobs = {}
  /\ clock = [recipes |-> 0, now |-> 0]
  /\ reqs = [p \in Procs |-> NoRequest]

\* The Authorization headers clients send: none, another scheme, "Bearer " with
\* no token, with a token that is no base64, with the base64 of a text that is no
\* JSON, with the base64 of null, and with the token of a registered user.
Headers ==
  {NoHeader,
   <<"B", "a", "s", "i", "c", " ", "x">>,
   Bearer,
   Bearer \o <<"!", "!">>,
   Bearer \o btoa(<<"x">>).val,
   Bearer \o btoa(NullText).val}
  \cup {Bearer \o generateToken(AuthUser(u.id, u.username)).val : u \in RegisteredUsers}

\* What authMiddleware makes of each of these headers.
Gate == [hdr \in Headers |-> authMiddleware(hdr)]

\* The routes behind recipe.use('*', authMiddleware) and user.use('*', authMiddleware).
ProtectedRoutes ==
  {"createRecipe", "listRecipes", "getRecipe", "updateRecipe", "deleteRecipe",
   "toggleFavorite", "uploadRecipeImage", "getUser", "updateUser", "uploadUserImage"}

\* The ids requests name in /:id.
RecipeIds == {<<Digits[i]>> : i \in 1..MaxRecipes}

FreshRecipeId == <<Digits[clock.recipes + 1]>>

Ingredient(name, amount, unit) == [name |-> name, amount |-> amount, unit |-> unit]
Instruction(step, text) == [step |-> step, instruction |-> text]

\* The CreateRecipeRequest bodies clients send to create and to update.
RecipeBodies ==
  {[name |-> "soup", duration |-> 30, servings |-> 2,
    ingredients |-> <<Ingredient("salt", 1, "tsp")>>,
    instructions |-> <<Instruction(1, "boil")>>],
   [name |-> "stew", duration |-> 90, servings |-> 4,
    ingredients |-> <<Ingredient("flour", 2, "cup"), Ingredient("salt", 1, "tsp")>>,
    instructions |-> <<>>],
   [name |-> "broth", duration |-> 60, servings |-> 4,
    ingredients |-> <<>>,
    instructions |-> <<Instruction(1, "chop"), Instruction(2, "boil")>>]}

\* The value of a field that a body does not have.
Missing == "(missing)"

\* Bodies with a row the tables refuse: an ingredient without a name, an
\* instruction without a text.
InvalidBodies ==
  {[name |-> "stew", duration |-> 90, servings |-> 4,
    ingredients |-> <<Ingredient(Missing, 2, "cup")>>,
    instructions |-> <<Instruction(1, "fry")>>],
   [name |-> "broth", duration |-> 60, servings |-> 4,
    ingredients |-> <<Ingredient("salt", 1, "tsp")>>,
    instructions |-> <<Instruction(1, Missing)>>]}

NoBody ==
  [name |-> "", duration |-> 0, servings |-> 0, ingredients |-> <<>>, instructions |-> <<>>]

NoLocals ==
  [favorite |-> FALSE, updated |-> FALSE, imageUrl |-> <<>>, key |-> <<>>,
   deleted |-> FALSE, rows |-> EmptyBag]

\* A request of a protected route that authMiddleware let through.
Request(op, hdr, user, id, body) ==
  [op |-> op, pc |-> "done", hdr |-> hdr, user |-> user,
   arg |-> [id |-> id, body |-> body], loc |-> NoLocals, status |-> 0, token |-> <<>>]

\* The request of client p goes on to its next statement.
Goto(p, r, pc) == reqs' = [reqs EXCEPT ![p] = [r EXCEPT !.pc = pc]]

\* The request of client p is answered (its body is not kept).
Finish(p, r, status) ==
  reqs' = [reqs EXCEPT ![p] =
             [r EXCEPT !.pc = "done", !.status = status, !.arg.body = NoBody]]

\* A request authMiddleware answers itself: the route's handler is never called.
Unauthorized(p) ==
  /\ ~Pending(p)
  /\ \E route \in ProtectedRoutes, hdr \in Headers :
       /\ Gate[hdr].status = 401
       /\ reqs' = [reqs EXCEPT ![p] =
                     [Request(route, hdr, Null, <<>>, NoBody) EXCEPT !.status = 401]]
  /\ UNCHANGED <<db, blobs, clock>>

(* ------------------------------ tables -------------------------------- *)

RECURSIVE SeqToBag(_)
SeqToBag(s) == IF s = <<>> THEN EmptyBag ELSE SetToBag({Head(s)}) (+) SeqToBag(Tail(s))

\* The rows of a child table that belong to recipe id, and the others.
RowsOf(rows, id) == [r \in {x \in DOMAIN rows : x.recipeId = id} |-> rows[r]]
RowsNotOf(rows, id) == [r \in {x \in DOMAIN rows : x.recipeId # id} |-> rows[r]]

\* The rows a request inserts for the list of a body.
ChildRows(id, list) == SeqToBag([i \in 1..Len(list) |-> [recipeId |-> id] @@ list[i]])

RecipesById(id) == {r \in recipes : r.id = id}
RecipesByIdAndUser(id, userId) == {r \in recipes : r.id = id /\ r.userId = userId}

\* references(() => users.id): the insert of a recipe of no stored user fails.
RecipeInsertAllowed(row) == \E u \in users : u.id = row.userId

\* references(() => recipes.id): the insert of a child row of no stored recipe fails.
ChildInsertNoForeignKey(id) == TRUE

ChildInsertAllowed(id) == RecipesById(id) # {}

\* The text columns of the child tables.
TextColumns == {"name", "unit", "instruction"}

\* notNull(): the insert of rows with a missing column fails as a whole.
NotNullIgnored(list) == TRUE

NotNullRows(list) ==
  \A i \in 1..Len(list) : \A f \in DOMAIN list[i] \cap TextColumns : list[i][f] # Missing

\* The insert of the rows of a list for recipe id succeeds.
ChildInsertSucceeds(id, list) == ChildInsertAllowed(id) /\ NotNullRows(list)

\* onDelete: 'cascade': what is left of a child table when recipe id is deleted.
CascadeNone(rows, id) == rows

CascadeDelete(rows, id) == RowsNotOf(rows, id)

\* delete from ingredients / instructions where recipeId = id (the update's).
DeleteNoChildren(rows, id) == rows

DeleteChildren(rows, id) == RowsNotOf(rows, id)

FavoriteRow(userId, id) == [userId |-> userId, recipeId |-> id]

FavoriteExists(favs, userId, id) == BagIn(FavoriteRow(userId, id), favs)

\* user_favorites: both foreign keys, and unique().on(userId, recipeId).
FavoriteInsertNoUnique(favs, row) ==
  /\ \E u \in users : u.id = row.userId
  /\ RecipesById(row.recipeId) # {}

FavoriteInsertAllowed(favs, row) ==
  /\ \E u \in users : u.id = row.userId
  /\ RecipesById(row.recipeId) # {}
  /\ ~BagIn(row, favs)

FavoritesWithout(favs, userId, id) ==
  [r \in DOMAIN favs \ {FavoriteRow(userId, id)} |-> favs[r]]

(* ------------------------------ recipe handlers ----------------------- *)

\* POST /api/recipes, up to the insert of the recipe row.
CreateRecipe(p) ==
  /\ ~Pending(p)
  /\ clock.recipes < MaxRecipes
  /\ \E hdr \in Headers, body \in RecipeBodies \cup InvalidBodies :
       LET gate == Gate[hdr]
           user == gate.user
           row == [id |-> FreshRecipeId, userId |-> user.id, name |-> body.name,
                   duration |-> body.duration, servings |-> body.servings,
                   imageUrl |-> <<>>]
           r == Request("createRecipe", hdr, user, FreshRecipeId, body)
       IN /\ gate.status = 0
          /\ IF user.isNull \/ ~RecipeInsertAllowed(row)
             THEN /\ Finish(p, [r EXCEPT !.arg.id = <<>>], 500)
                  /\ UNCHANGED <<recipes, clock>>
             ELSE /\ recipes' = recipes \cup {row}
                  /\ clock' = [clock EXCEPT !.recipes = @ + 1]
                  /\ IF body.ingredients # <<>> THEN Goto(p, r, "createIngredients")
                     ELSE IF body.instructions # <<>> THEN Goto(p, r, "createInstructions")
                     ELSE Finish(p, r, 201)
  /\ UNCHANGED <<users, ingredients, instructions, userFavorites, blobs>>

\* POST /api/recipes: the insert of the ingredients.
CreateIngredients(p) ==
  LET r == reqs[p] IN
  /\ r.op = "createRecipe" /\ r.pc = "createIngredients"
  /\ IF ~ChildInsertSucceeds(r.arg.id, r.arg.body.ingredients)
     THEN Finish(p, r, 500) /\ UNCHANGED ingredients
     ELSE /\ ingredients' = ingredients (+) ChildRows(r.arg.id, r.arg.body.ingredients)
          /\ IF r.arg.body.instructions # <<>> THEN Goto(p, r, "createInstructions")
             ELSE Finish(p, r, 201)
  /\ UNCHANGED <<users, recipes, instructions, userFavorites, blobs, clock>>

\* POST /api/recipes: the insert of the instructions, and the answer.
CreateInstructions(p) ==
  LET r == reqs[p] IN
  /\ r.op = "createRecipe" /\ r.pc = "createInstructions"
  /\ IF ~ChildInsertSucceeds(r.arg.id, r.arg.body.instructions)
     THEN Finish(p, r, 500) /\ UNCHANGED instructions
     ELSE /\ instructions' = instructions (+) ChildRows(r.arg.id, r.arg.body.instructions)
          /\ Finish(p, r, 201)
  /\ UNCHANGED <<users, recipes, ingredients, userFavorites, blobs, clock>>

\* PUT /api/recipes/:id, up to the answer of the ownership select.
UpdateRecipe(p) ==
  /\ ~Pending(p)
  /\ \E hdr \in Headers, id \in RecipeIds, body \in RecipeBodies :
       LET gate == Gate[hdr]
           user == gate.user
           r == Request("updateRecipe", hdr, user, id, body)
       IN /\ gate.status = 0
          /\ IF user.isNull THEN Finish(p, r, 500)
             ELSE IF RecipesByIdAndUser(id, user.id) = {} THEN Finish(p, r, 404)
             ELSE Goto(p, r, "updateRow")
  /\ UNCHANGED <<db, blobs, clock>>

\* PUT /api/recipes/:id: update recipes set name, duration, servings where id.
UpdateRow(p) ==
  LET r == reqs[p]
      body == r.arg.body
  IN /\ r.op = "updateRecipe" /\ r.pc = "updateRow"
     /\ recipes' = {IF row.id = r.arg.id
                    THEN [row EXCEPT !.name = body.name, !.duration = body.duration,
                                     !.servings = body.servings]
                    ELSE row : row \in recipes}
     /\ Goto(p, [r EXCEPT !.loc.updated = (RecipesById(r.arg.id) # {})], "deleteIngredients")
     /\ UNCHANGED <<users, ingredients, instructions, userFavorites, blobs, clock>>

\* PUT /api/recipes/:id: delete from ingredients where recipeId.
UpdateDeleteIngredients(p) ==
  LET r == reqs[p] IN
  /\ r.op = "updateRecipe" /\ r.pc = "deleteIngredients"
  /\ ingredients' = DeleteChildren(ingredients, r.arg.id)
  /\ IF r.arg.body.ingredients # <<>> THEN Goto(p, r, "insertIngredients")
     ELSE Goto(p, r, "deleteInstructions")
  /\ UNCHANGED <<users, recipes, instructions, userFavorites, blobs, clock>>

\* PUT /api/recipes/:id: the insert of the new ingredients.
UpdateInsertIngredients(p) ==
  LET r == reqs[p] IN
  /\ r.op = "updateRecipe" /\ r.pc = "insertIngredients"
  /\ IF ~ChildInsertSucceeds(r.arg.id, r.arg.body.ingredients)
     THEN Finish(p, r, 500) /\ UNCHANGED ingredients
     ELSE /\ ingredients' = ingredients (+) ChildRows(r.arg.id, r.arg.body.ingredients)
          /\ Goto(p, r, "deleteInstructions")
  /\ UNCHANGED <<users, recipes, instructions, userFavorites, blobs, clock>>

\* The answer of an update: updatedRecipe.id throws when the update matched no
\* row; an update answered 200 keeps its body with it.
UpdateAnswer(p, r) ==
  IF r.loc.updated
  THEN reqs' = [reqs EXCEPT ![p] = [r EXCEPT !.pc = "done", !.status = 200]]
  ELSE Finish(p, r, 500)

\* PUT /api/recipes/:id: delete from instructions where recipeId.
UpdateDeleteInstructions(p) ==
  LET r == reqs[p] IN
  /\ r.op = "updateRecipe" /\ r.pc = "deleteInstructions"
  /\ instructions' = DeleteChildren(instructions, r.arg.id)
  /\ IF r.arg.body.instructions # <<>> THEN Goto(p, r, "insertInstructions")
     ELSE UpdateAnswer(p, r)
  /\ UNCHANGED <<users, recipes, ingredients, userFavorites, blobs, clock>>

\* PUT /api/recipes/:id: the insert of the new instructions, and the answer.
UpdateInsertInstructions(p) ==
  LET r == reqs[p] IN
  /\ r.op = "updateRecipe" /\ r.pc = "insertInstructions"
  /\ IF ~ChildInsertSucceeds(r.arg.id, r.arg.body.instructions)
     THEN Finish(p, r, 500) /\ UNCHANGED instructions
     ELSE /\ instructions' = instructions (+) ChildRows(r.arg.id, r.arg.body.instructions)
          /\ UpdateAnswer(p, r)
  /\ UNCHANGED <<users, recipes, ingredients, userFavorites, blobs, clock>>

\* DELETE /api/recipes/:id, up to the answer of the ownership select.
DeleteRecipe(p) ==
  /\ ~Pending(p)
  /\ \E hdr \in Headers, id \in RecipeIds :
       LET gate == Gate[hdr]
           user == gate.user
           r == Request("deleteRecipe", hdr, user, id, NoBody)
           found == RecipesByIdAndUser(id, user.id)
       IN /\ gate.status = 0
          /\ IF user.isNull THEN Finish(p, r, 500)
             ELSE IF found = {} THEN Finish(p, r, 404)
             ELSE Goto(p, [r EXCEPT !.loc.imageUrl = (CHOOSE row \in found : TRUE).imageUrl],
                       "deleteRow")
  /\ UNCHANGED <<db, blobs, clock>>

\* DELETE /api/recipes/:id: delete from recipes where id, with its cascade.
DeleteRow(p) ==
  LET r == reqs[p] IN
  /\ r.op = "deleteRecipe" /\ r.pc = "deleteRow"
  /\ recipes' = recipes \ RecipesById(r.arg.id)
  /\ ingredients' = CascadeDelete(ingredients, r.arg.id)
  /\ instructions' = CascadeDelete(instructions, r.arg.id)
  /\ userFavorites' = CascadeDelete(userFavorites, r.arg.id)
  /\ IF r.loc.imageUrl # <<>> THEN Goto(p, r, "deleteBlob") ELSE Finish(p, r, 200)
  /\ UNCHANGED <<users, blobs, clock>>

\* POST /api/recipes/:id/favorite, up to the answer of the recipe select.
ToggleFavorite(p) ==
  /\ ~Pending(p)
  /\ \E hdr \in Headers, id \in RecipeIds :
       LET gate == Gate[hdr]
           r == Request("toggleFavorite", hdr, gate.user, id, NoBody)
       IN /\ gate.status = 0
          /\ IF RecipesById(id) = {} THEN Finish(p, r, 404)
             ELSE Goto(p, r, "selectFavorite")
  /\ UNCHANGED <<db, blobs, clock>>

\* POST /api/recipes/:id/favorite: the select of the favorite row.
ToggleSelect(p) ==
  LET r == reqs[p] IN
  /\ r.op = "toggleFavorite" /\ r.pc = "selectFavorite"
  /\ IF r.user.isNull THEN Finish(p, r, 500)
     ELSE Goto(p, [r EXCEPT !.loc.favorite = FavoriteExists(userFavorites, r.user.id, r.arg.id)],
               "toggleWrite")
  /\ UNCHANGED <<db, blobs, clock>>

\* What the delete-or-insert of a toggle makes of the favorites; it throws when
\* the insert is refused.
ToggleInsertOnly(favs, userId, id, favorite) ==
  IF FavoriteInsertAllowed(favs, FavoriteRow(userId, id))
  THEN Ok(favs (+) SetToBag({FavoriteRow(userId, id)}))
  ELSE Ok(favs)

ToggleAtomic(favs, userId, id, favorite) ==
  IF FavoriteExists(favs, userId, id) THEN Ok(FavoritesWithout(favs, userId, id))
  ELSE IF FavoriteInsertAllowed(favs, FavoriteRow(userId, id))
    THEN Ok(favs (+) SetToBag({FavoriteRow(userId, id)}))
  ELSE Throw

ToggleWritten(favs, userId, id, favorite) ==
  IF favorite THEN Ok(FavoritesWithout(favs, userId, id))
  ELSE IF FavoriteInsertAllowed(favs, FavoriteRow(userId, id))
    THEN Ok(favs (+) SetToBag({FavoriteRow(userId, id)}))
  ELSE Throw

\* POST /api/recipes/:id/favorite: the delete or the insert, and the answer.
ToggleWrite(p) ==
  LET r == reqs[p]
      written == ToggleWritten(userFavorites, r.user.id, r.arg.id, r.loc.favorite)
  IN /\ r.op = "toggleFavorite" /\ r.pc = "toggleWrite"
     /\ IF written.ok
        THEN userFavorites' = written.val /\ Finish(p, r, 200)
        ELSE UNCHANGED userFavorites /\ Finish(p, r, 500)
     /\ UNCHANGED <<users, recipes, ingredients, instructions, blobs, clock>>

(* ------------------------------ recipe lists -------------------------- *)

\* The characters of the recipe names of the bodies.
NameChars ==
  ("soup" :> <<"s", "o", "u", "p">>) @@ ("stew" :> <<"s", "t", "e", "w">>)
  @@ ("broth" :> <<"b", "r", "o", "t", "h">>)

UpperAscii == <<"A", "B", "C", "D", "E", "F", "G", "H", "I", "J", "K", "L", "M",
                "N", "O", "P", "Q", "R", "S", "T", "U", "V", "W", "X", "Y", "Z">>
LowerAscii == <<"a", "b", "c", "d", "e", "f", "g", "h", "i", "j", "k", "l", "m",
                "n", "o", "p", "q", "r", "s", "t", "u", "v", "w", "x", "y", "z">>

\* The case folding of LIKE: ASCII letters only.
likeFold(c) ==
  IF \E i \in 1..Len(UpperAscii) : UpperAscii[i] = c
  THEN LowerAscii[CHOOSE i \in 1..Len(UpperAscii) : UpperAscii[i] = c]
  ELSE c

\* text LIKE pattern: % matches any run of characters, _ any one character, and
\* any other character itself, whatever the case of ASCII letters.
RECURSIVE like(_, _)
like(text, pattern) ==
  IF pattern = <<>> THEN text = <<>>
  ELSE IF Head(pattern) = "%"
    THEN like(text, Tail(pattern)) \/ (text # <<>> /\ like(Tail(text), pattern))
  ELSE IF text = <<>> THEN FALSE
  ELSE IF Head(pattern) = "_" THEN like(Tail(text), Tail(pattern))
  ELSE likeFold(Head(pattern)) = likeFold(Head(text)) /\ like(Tail(text), Tail(pattern))

\* c.req.query('search') when the URL has no search parameter.
NoSearch == <<"undefined">>

\* The search parameters clients send.
Searches ==
  {NoSearch, <<>>, <<"o", "u">>, <<"O", "U">>, <<"s", "_", "u", "p">>, <<"x">>}

\* where name LIKE '%' + search + '%', applied when search is a non-empty string.
SearchMatches(name, search) ==
  search \in {NoSearch, <<>>} \/ like(NameChars[name], <<"%">> \o search \o <<"%">>)

\* recipes left join user_favorites on the recipe and userId: one row for each
\* favorite row of the user for the recipe, and one row when there is none. The
\* result is the bag of the ids of its rows.
LeftJoinFavorites(rows, userId) ==
  [id \in {r.id : r \in rows} |->
     IF FavoriteExists(userFavorites, userId, id)
     THEN CopiesIn(FavoriteRow(userId, id), userFavorites)
     ELSE 1]

\* The request of client p is answered 200 with the rows of its query.
AnswerRows(p, r, rows) ==
  reqs' = [reqs EXCEPT ![p] = [r EXCEPT !.pc = "done", !.status = 200, !.loc.rows = rows]]

\* GET /api/recipes?search=
ListRecipes(p) ==
  /\ ~Pending(p)
  /\ \E hdr \in Headers, search \in Searches :
       LET gate == Gate[hdr]
           user == gate.user
           r == Request("listRecipes", hdr, user, search, NoBody)
       IN /\ gate.status = 0
          /\ IF user.isNull THEN Finish(p, r, 500)
             ELSE AnswerRows(p, r, LeftJoinFavorites(
                    {row \in recipes : SearchMatches(row.name, search)}, user.id))
  /\ UNCHANGED <<db, blobs, clock>>

\* The favorite rows of user userId joined to their recipes and to the recipes'
\* authors: the bag of the recipe ids of the rows.
FavoritesMeRows(userId) ==
  LET joined == {f \in DOMAIN userFavorites :
                   /\ f.userId = userId
                   /\ \E r \in recipes : r.id = f.recipeId /\ \E u \in users : u.id = r.userId}
  IN [id \in {f.recipeId : f \in joined} |-> CopiesIn(FavoriteRow(userId, id), userFavorites)]

\* GET /api/recipes/favorites/me
ListFavoritesMe(p) ==
  /\ ~Pending(p)
  /\ \E hdr \in Headers :
       LET gate == Gate[hdr]
           user == gate.user
           r == Request("listFavoritesMe", hdr, user, <<>>, NoBody)
       IN /\ gate.status = 0
          /\ IF user.isNull THEN Finish(p, r, 500)
             ELSE AnswerRows(p, r, FavoritesMeRows(user.id))
  /\ UNCHANGED <<db, blobs, clock>>

\* recipes join user_favorites on the recipe join users on recipes.userId =
\* users.id and users.username = username, where user_favorites.userId =
\* users.id: the bag of the recipe ids of the rows.
FavoritesOfRows(username) ==
  LET joined == {f \in DOMAIN userFavorites :
                   \E r \in recipes : \E u \in users :
                     /\ r.id = f.recipeId
                     /\ r.userId = u.id /\ u.username = username
                     /\ f.userId = u.id}
  IN [id \in {f.recipeId : f \in joined} |->
        CopiesIn(FavoriteRow((CHOOSE r \in recipes : r.id = id).userId, id), userFavorites)]

\* The usernames clients name in a path.
PathUsernames == {<<"a">>, <<"b">>, <<"x">>}

\* GET /api/recipes/favorites/:username
ListFavoritesOf(p) ==
  /\ ~Pending(p)
  /\ \E hdr \in Headers, username \in PathUsernames :
       LET gate == Gate[hdr]
           r == Request("listFavoritesOf", hdr, gate.user, username, NoBody)
       IN /\ gate.status = 0
          /\ AnswerRows(p, r, FavoritesOfRows(username))
  /\ UNCHANGED <<db, blobs, clock>>

(* ------------------------------ images -------------------------------- *)

\* The latest value Date.now() takes.
MaxTime == 2

\* The times Date.now() may return now: the clock never runs backwards.
Times == {t \in 1..MaxTime : t >= clock.now}

\* The first occurrence of pat in s replaced by rep (String.prototype.replace).
RECURSIVE replaceFirst(_, _, _)
replaceFirst(s, pat, rep) ==
  IF Len(s) < Len(pat) THEN s
  ELSE IF StartsAt(s, 1, pat) THEN rep \o SubSeq(s, Len(pat) + 1, Len(s))
  ELSE <<Head(s)>> \o replaceFirst(Tail(s), pat, rep)

ImagesSlash == <<"i", "m", "a", "g", "e", "s", "/">>
RecipesSlash == <<"r", "e", "c", "i", "p", "e", "s", "/">>
UsersSlash == <<"u", "s", "e", "r", "s", "/">>

\* `images/recipes/${id}-${Date.now()}` and `images/users/${username}-${Date.now()}`
RecipeImageKey(id, t) == ImagesSlash \o RecipesSlash \o id \o <<"-", Digits[t]>>
UserImageKey(username, t) == ImagesSlash \o UsersSlash \o username \o <<"-", Digits[t]>>

\* groceree_r2.delete(key): the store after the call, which succeeds (ok) or
\* throws; the delete of a key that holds no object succeeds and changes nothing.
R2Delete(store, key, ok) == IF ok THEN store \ {key} ELSE store

\* try { await groceree_r2.delete(...) } catch { console.error(...) }: the status
\* the handler answers after the call, 0 when it goes on.
AfterDeleteOldSurfaced(ok) == IF ok THEN 0 ELSE 500

AfterDeleteOld(ok) == 0

\* `/${key}`
ImageUrl(key) == <<"/">> \o key

\* The largest image size accepted, in bytes.
MaxImageSize == 5 * 1024 * 1024

AllowedTypes == {"image/jpeg", "image/png", "image/gif"}

NoImage == [type |-> "", size |-> 0, present |-> FALSE]
Image(type, size) == [type |-> type, size |-> size, present |-> TRUE]

\* The upload requests clients send: their content-type header and their form.
Uploads ==
  {[contentType |-> "multipart/form-data", image |-> Image("image/jpeg", MaxImageSize)],
   [contentType |-> "multipart/form-data", image |-> Image("image/gif", 1)],
   [contentType |-> "multipart/form-data", image |-> Image("image/png", MaxImageSize + 1)],
   [contentType |-> "multipart/form-data", image |-> Image("image/webp", 1)],
   [contentType |-> "multipart/form-data", image |-> NoImage],
   [contentType |-> "application/json", image |-> Image("image/png", 1)]}

\* The checks of an upload before anything is stored: 0, or the status they answer.
UploadRefusedNoSize(upload) ==
  IF upload.contentType # "multipart/form-data" THEN 400
  ELSE IF ~upload.image.present THEN 400
  ELSE IF upload.image.type \notin AllowedTypes THEN 400
  ELSE 0

UploadRefused(upload) ==
  IF upload.contentType # "multipart/form-data" THEN 400
  ELSE IF ~upload.image.present THEN 400
  ELSE IF upload.image.type \notin AllowedTypes THEN 400
  ELSE IF upload.image.size > MaxImageSize THEN 400
  ELSE 0

\* The request of client p is answered, its upload kept with it.
Answer(p, r, status) ==
  reqs' = [reqs EXCEPT ![p] = [r EXCEPT !.pc = "done", !.status = status]]

\* POST /api/recipes/:id/image, up to the checks of the form.
UploadRecipeImage(p) ==
  /\ ~Pending(p)
  /\ \E hdr \in Headers, id \in RecipeIds, upload \in Uploads :
       LET gate == Gate[hdr]
           r == Request("uploadRecipeImage", hdr, gate.user, id, upload)
       IN /\ gate.status = 0
          /\ IF RecipesById(id) = {} THEN Answer(p, r, 404)
             ELSE IF UploadRefused(upload) # 0 THEN Answer(p, r, UploadRefused(upload))
             ELSE Goto(p, r, "putBlob")
  /\ UNCHANGED <<db, blobs, clock>>

\* POST /api/recipes/:id/image: groceree_r2.put(key, image)
RecipeImagePut(p) ==
  LET r == reqs[p] IN
  /\ r.op = "uploadRecipeImage" /\ r.pc = "putBlob"
  /\ \E t \in Times :
       LET key == RecipeImageKey(r.arg.id, t)
       IN /\ clock' = [clock EXCEPT !.now = t]
          /\ blobs' = blobs \cup {key}
          /\ Goto(p, [r EXCEPT !.loc.key = key], "updateImageUrl")
  /\ UNCHANGED db

\* POST /api/recipes/:id/image: update recipes set imageUrl where id; when the
\* update returns no row the stored blob is deleted again.
RecipeImageUpdate(p) ==
  LET r == reqs[p] IN
  /\ r.op = "uploadRecipeImage" /\ r.pc = "updateImageUrl"
  /\ IF RecipesById(r.arg.id) = {}
     THEN /\ blobs' = blobs \ {r.loc.key}
          /\ Answer(p, r, 500)
          /\ UNCHANGED recipes
     ELSE /\ recipes' = {IF row.id = r.arg.id
                         THEN [row EXCEPT !.imageUrl = ImageUrl(r.loc.key)]
                         ELSE row : row \in recipes}
          /\ Answer(p, r, 200)
          /\ UNCHANGED blobs
  /\ UNCHANGED <<users, ingredients, instructions, userFavorites, clock>>

\* DELETE /api/recipes/:id: groceree_r2.delete(imageUrl.replace('/images/', ''))
DeleteBlob(p) ==
  LET r == reqs[p] IN
  /\ r.op = "deleteRecipe" /\ r.pc = "deleteBlob"
  /\ \E ok \in BOOLEAN :
       /\ blobs' = R2Delete(blobs, replaceFirst(r.loc.imageUrl, <<"/">> \o ImagesSlash, <<>>), ok)
       /\ Finish(p, [r EXCEPT !.loc.deleted = ok], 200)
  /\ UNCHANGED <<db, clock>>

(* ------------------------------ user handlers ------------------------- *)

\* The bodies clients send to PUT /api/users.
ProfileBodies ==
  {[firstName |-> "Ann", lastName |-> "Lee", bio |-> "I cook."],
   [firstName |-> "Bob", lastName |-> "Ray", bio |-> ""]}

\* PUT /api/users
UpdateUser(p) ==
  /\ ~Pending(p)
  /\ \E hdr \in Headers, body \in ProfileBodies :
       LET gate == Gate[hdr]
           user == gate.user
           r == Request("updateUser", hdr, user, <<>>, body)
       IN /\ gate.status = 0
          /\ IF user.isNull THEN Finish(p, r, 500) /\ UNCHANGED users
             ELSE IF \A u \in users : u.id # user.id
               THEN Finish(p, r, 404) /\ UNCHANGED users
             ELSE /\ users' = {IF u.id = user.id
                               THEN [u EXCEPT !.firstName = body.firstName,
                                              !.lastName = body.lastName,
                                              !.bio = body.bio]
                               ELSE u : u \in users}
                  /\ Finish(p, r, 200)
  /\ UNCHANGED <<recipes, ingredients, instructions, userFavorites, blobs, clock>>

\* POST /api/users/image, up to groceree_r2.put(key, image)
UploadUserImage(p) ==
  /\ ~Pending(p)
  /\ \E hdr \in Headers, upload \in Uploads :
       LET gate == Gate[hdr]
           user == gate.user
           r == Request("uploadUserImage", hdr, user, <<>>, upload)
       IN /\ gate.status = 0
          /\ IF UploadRefused(upload) # 0
             THEN Answer(p, r, UploadRefused(upload)) /\ UNCHANGED <<blobs, clock>>
             ELSE IF user.isNull THEN Answer(p, r, 500) /\ UNCHANGED <<blobs, clock>>
             ELSE \E t \in Times :
                    LET key == UserImageKey(user.username, t)
                    IN /\ clock' = [clock EXCEPT !.now = t]
                       /\ blobs' = blobs \cup {key}
                       /\ Goto(p, [r EXCEPT !.loc.key = key], "selectUser")
  /\ UNCHANGED db

\* POST /api/users/image: select imageUrl from users where username
UserImageSelect(p) ==
  LET r == reqs[p]
      found == UsersByUsername(r.user.username)
      imageUrl == IF found = {} THEN <<>> ELSE (CHOOSE u \in found : TRUE).imageUrl
  IN /\ r.op = "uploadUserImage" /\ r.pc = "selectUser"
     /\ IF imageUrl # <<>> THEN Goto(p, [r EXCEPT !.loc.imageUrl = imageUrl], "deleteOld")
        ELSE Goto(p, r, "updateUserImage")
     /\ UNCHANGED <<db, blobs, clock>>

\* POST /api/users/image: groceree_r2.delete(user.imageUrl)
UserImageDeleteOld(p) ==
  LET r == reqs[p] IN
  /\ r.op = "uploadUserImage" /\ r.pc = "deleteOld"
  /\ \E ok \in BOOLEAN :
       LET tried == [r EXCEPT !.loc.deleted = ok]
       IN /\ blobs' = R2Delete(blobs, r.loc.imageUrl, ok)
          /\ IF AfterDeleteOld(ok) = 0 THEN Goto(p, tried, "updateUserImage")
             ELSE Answer(p, tried, AfterDeleteOld(ok))
  /\ UNCHANGED <<db, clock>>

\* POST /api/users/image: update users set imageUrl where username, and the answer.
UserImageUpdate(p) ==
  LET r == reqs[p] IN
  /\ r.op = "uploadUserImage" /\ r.pc = "updateUserImage"
  /\ users' = {IF u.username = r.user.username
               THEN [u EXCEPT !.imageUrl = ImageUrl(r.loc.key)]
               ELSE u : u \in users}
  /\ Answer(p, r, 200)
  /\ UNCHANGED <<recipes, ingredients, instructions, userFavorites, blobs, clock>>

(* ------------------------------ image route -------------------------- *)

\* The segments of a path: the pieces between its slashes.
RECURSIVE splitSlash(_, _)
splitSlash(s, cur) ==
  IF s = <<>> THEN <<cur>>
  ELSE IF Head(s) = "/" THEN <<cur>> \o splitSlash(Tail(s), <<>>)
  ELSE splitSlash(Tail(s), Append(cur, Head(s)))

\* app.get('/images/:key'): the route matches a path of two segments, the first
\* "images" and the second, not empty, the value of key.
matchImagesKey(path) ==
  LET segments == splitSlash(path, <<>>)
  IN IF /\ Len(segments) = 3
        /\ segments[1] = <<>>
        /\ segments[2] \o <<"/">> = ImagesSlash
        /\ segments[3] # <<>>
     THEN Ok(segments[3])
     ELSE Throw

\* The paths clients GET: the imageUrl values of the stored rows, and a path of
\* no stored image.
ImagePaths ==
  {row.imageUrl : row \in {x \in recipes \cup users : x.imageUrl # <<>>}}
  \cup {<<"/">> \o ImagesSlash \o <<"x">>}

\* GET of an image path: 404 when no route matches or the store has no object
\* under the key, else 200 with the object of that key.
GetImage(p) ==
  /\ ~Pending(p)
  /\ \E path \in ImagePaths :
       LET matched == matchImagesKey(path)
           r == [Request("getImage", NoHeader, Null, path, NoBody) EXCEPT !.arg.body = <<>>]
       IN IF ~matched.ok THEN Answer(p, r, 404)
          ELSE IF matched.val \notin blobs THEN Answer(p, [r EXCEPT !.loc.key = matched.val], 404)
          ELSE Answer(p, [r EXCEPT !.loc.key = matched.val], 200)
  /\ UNCHANGED <<db, blobs, clock>>

(* ------------------------------ error handler ------------------------ *)

\* new ApiError(statusCode, message, originalError?): cause is the message of
\* the wrapped error when there is one.
ApiError(statusCode, message, hasCause, cause) ==
  [isApiError |-> TRUE, name |-> "ApiError", statusCode |-> statusCode,
   message |-> message, hasCause |-> hasCause, cause |-> cause]

\* An error that is not an ApiError.
OtherError(name, message) ==
  [isApiError |-> FALSE, name |-> name, statusCode |-> 0,
   message |-> message, hasCause |-> FALSE, cause |-> ""]

\* The status codes and messages of the ApiErrors the handlers throw.
ApiStatusCodes == {400, 401, 403, 404, 409, 500}
ApiMessages == {"Recipe not found", "Failed to create recipe"}

\* The errors that reach app.onError.
Errors ==
  {ApiError(code, msg, FALSE, "") : code \in ApiStatusCodes, msg \in ApiMessages}
  \cup {ApiError(code, msg, TRUE, "FOREIGN KEY constraint failed") :
          code \in ApiStatusCodes, msg \in ApiMessages}
  \cup {OtherError(name, msg) :
          name \in {"Error", "SyntaxError", "TypeError", "DrizzleError", "ValidationError"},
          msg \in {"Unexpected end of JSON input", "boom"}}

\* The values of process.env.NODE_ENV.
Environments == {"development", "production", "test"}

\* The JSON body of an error response: details is present only with hasDetails.
ErrorBody(error, hasDetails, details) ==
  [error |-> error, hasDetails |-> hasDetails, details |-> details]

errorHandlerAlways500(err, env) ==
  [status |-> 500, body |-> ErrorBody("Internal server error", FALSE, "")]

errorHandlerDetailsAlways(err, env) ==
  IF err.isApiError
  THEN [status |-> err.statusCode,
        body |-> ErrorBody(err.message, err.hasCause,
                           IF err.hasCause THEN err.cause ELSE "")]
  ELSE IF err.name = "ValidationError"
    THEN [status |-> 400, body |-> ErrorBody("Invalid request data", FALSE, "")]
  ELSE [status |-> 500, body |-> ErrorBody("Internal server error", FALSE, "")]

errorHandler(err, env) ==
  IF err.isApiError
  THEN LET hasDetails == env = "development" /\ err.hasCause
       IN [status |-> err.statusCode,
           body |-> ErrorBody(err.message, hasDetails,
                              IF hasDetails THEN err.cause ELSE "")]
  ELSE IF err.name = "DrizzleError"
    THEN [status |-> 500, body |-> ErrorBody("Database operation failed", FALSE, "")]
  ELSE IF err.name = "ValidationError"
    THEN [status |-> 400, body |-> ErrorBody("Invalid request data", FALSE, "")]
  ELSE [status |-> 500, body |-> ErrorBody("Internal server error", FALSE, "")]

\* A request of client p throws err out of its route, in a worker built with
\* NODE_ENV env.
RouteThrows(p) ==
  /\ ~Pending(p)
  /\ \E err \in Errors, env \in Environments :
       reqs' = [reqs EXCEPT ![p] =
                  [NoRequest EXCEPT !.op = "onError", !.pc = "thrown",
                                    !.arg = [id |-> <<>>, body |-> [err |-> err, env |-> env]]]]
  /\ UNCHANGED <<db, blobs, clock>>

\* app.onError(errorHandler): the response to the thrown error.
OnError(p) ==
  LET r == reqs[p]
      answer == errorHandler(r.arg.body.err, r.arg.body.env)
  IN /\ r.op = "onError" /\ r.pc = "thrown"
     /\ reqs' = [reqs EXCEPT ![p] =
                   [r EXCEPT !.pc = "done", !.status = answer.status, !.loc = answer.body]]
     /\ UNCHANGED <<db, blobs, clock>>

(* ------------------------------ specifications ------------------------ *)

\* The recipe handlers, their statements interleaved.
Next ==
  \E p \in Procs :
    \/ CreateRecipe(p) \/ CreateIngredients(p) \/ CreateInstructions(p)
    \/ UpdateRecipe(p) \/ UpdateRow(p) \/ UpdateDeleteIngredients(p)
    \/ UpdateInsertIngredients(p) \/ UpdateDeleteInstructions(p)
    \/ UpdateInsertInstructions(p)
    \/ DeleteRecipe(p) \/ DeleteRow(p)
    \/ ToggleFavorite(p) \/ ToggleSelect(p) \/ ToggleWrite(p)

Spec == InitRegistered /\ [][Next]_vars

\* The same handlers, one request at a time: the requests of one client, which
\* sends a request when its last one is answered. It also sends requests that
\* authMiddleware refuses.
NextSerial ==
  \/ Unauthorized(1)
  \/ CreateRecipe(1) \/ CreateIngredients(1) \/ CreateInstructions(1)
  \/ UpdateRecipe(1) \/ UpdateRow(1) \/ UpdateDeleteIngredients(1)
  \/ UpdateInsertIngredients(1) \/ UpdateDeleteInstructions(1)
  \/ UpdateInsertInstructions(1)
  \/ DeleteRecipe(1) \/ DeleteRow(1)
  \/ ToggleFavorite(1) \/ ToggleSelect(1) \/ ToggleWrite(1)
  \/ ListRecipes(1) \/ ListFavoritesMe(1) \/ ListFavoritesOf(1)

SpecSerial == InitRegistered /\ [][NextSerial]_vars

\* The tables after user "a" created the recipe "soup".
SoupBody == CHOOSE body \in RecipeBodies : body.name = "soup"

InitImages ==
  /\ users = RegisteredUsers
  /\ recipes = {[id |-> <<"1">>, userId |-> <<"1">>, name |-> SoupBody.name,
                 duration |-> SoupBody.duration, servings |-> SoupBody.servings,
                 imageUrl |-> <<>>]}
  /\ ingredients = ChildRows(<<"1">>, SoupBody.ingredients)
  /\ instructions = ChildRows(<<"1">>, SoupBody.instructions)
  /\ userFavorites = EmptyBag
  /\ blobs = {}
  /\ clock = [recipes |-> 1, now |-> 0]
  /\ reqs = [p \in Procs |-> NoRequest]

\* The handlers that store images and profiles, with the delete of a recipe, one
\* request at a time.
NextImages ==
  \/ DeleteRecipe(1) \/ DeleteRow(1) \/ DeleteBlob(1)
  \/ UploadRecipeImage(1) \/ RecipeImagePut(1) \/ RecipeImageUpdate(1)
  \/ GetImage(1)
  \/ UpdateUser(1)
  \/ UploadUserImage(1) \/ UserImageSelect(1) \/ UserImageDeleteOld(1)
  \/ UserImageUpdate(1)

SpecImages == InitImages /\ [][NextImages]_vars

\* The errors thrown by the routes of one client and their responses.
NextErrors == RouteThrows(1) \/ OnError(1)

SpecErrors == InitRegistered /\ [][NextErrors]_vars

(* ------------------------------ claims: auth -------------------------- *)

\* Client p's request arrives in this step: a register, or a login.
RegisterArrives(p) == ~Pending(p) /\ reqs'[p] # reqs[p] /\ reqs'[p].op = "register"
LoginArrives(p) == ~Pending(p) /\ reqs'[p] # reqs[p] /\ reqs'[p].op = "login"

\* The stored users whose username is the lower-cased, trimmed form of raw.
StoredAs(raw) == {u \in users : u.username = trim(toLowerCase(raw))}

\* C1: a register request whose lower-cased, trimmed username is the username of
\* a stored user is answered 400 at once, with no token, and the users table
\* (like every other table) is left as it was.
C1_DuplicateRegisterRejected ==
  [][\A p \in Procs :
       (RegisterArrives(p) /\ StoredAs(reqs'[p].arg.username) # {})
       => /\ reqs'[p].pc = "done"
          /\ reqs'[p].status = 400
          /\ reqs'[p].token = <<>>
          /\ users' = users
          /\ UNCHANGED <<db, blobs>>]_vars

\* A register of a username written differently from the stored one was refused.
C1_Witness ==
  \E p \in Procs :
    /\ reqs[p].op = "register" /\ reqs[p].pc = "done" /\ reqs[p].status = 400
    /\ reqs[p].arg.username # trim(toLowerCase(reqs[p].arg.username))
    /\ StoredAs(reqs[p].arg.username) # {}

\* C2: every stored username is lower-cased and trimmed, and no two stored users
\* have usernames that are equal ignoring letter case.
C2_UsernamesNormalizedUnique ==
  /\ \A u \in users : u.username = trim(toLowerCase(u.username))
  /\ \A u, v \in users :
       toLowerCase(u.username) = toLowerCase(v.username) => u = v

\* A user registered under a username that was not in normal form is stored, and
\* a register that raced it for the same username has failed at its insert.
C2_Witness ==
  /\ users # {}
  /\ \E p, q \in Procs :
       /\ reqs[p].op = "register" /\ reqs[p].status = 200
       /\ reqs[p].arg.username # trim(toLowerCase(reqs[p].arg.username))
       /\ reqs[q].op = "register" /\ reqs[q].status = 500
       /\ trim(toLowerCase(reqs[q].arg.username)) = trim(toLowerCase(reqs[p].arg.username))

\* C3: a login whose username matches no stored user, or whose password differs
\* from the matched user's, is answered 401 with no token, and no stored state
\* changes.
C3_BadLoginRejected ==
  [][\A p \in Procs :
       (LoginArrives(p)
        /\ \A u \in StoredAs(reqs'[p].arg.username) : u.password # reqs'[p].arg.password)
       => /\ reqs'[p].pc = "done"
          /\ reqs'[p].status = 401
          /\ reqs'[p].token = <<>>
          /\ UNCHANGED <<db, blobs>>]_vars

\* One login was refused for a wrong password of a stored user, another for a
\* username nobody has.
C3_Witness ==
  \E p, q \in Procs :
    /\ reqs[p].op = "login" /\ reqs[p].status = 401
    /\ \E u \in StoredAs(reqs[p].arg.username) : u.password # reqs[p].arg.password
    /\ reqs[q].op = "login" /\ reqs[q].status = 401
    /\ StoredAs(reqs[q].arg.username) = {}

\* C5: the token of a successful register or login, sent as "Bearer <token>",
\* passes authMiddleware, which sets exactly the id and username of the user that
\* was registered or logged in.
C5_TokenRoundTrip ==
  \A p \in Procs :
    (reqs[p].op \in {"register", "login"} /\ reqs[p].pc = "done" /\ reqs[p].status = 200)
    => LET gate == authMiddleware(Bearer \o reqs[p].token)
       IN /\ gate.status = 0
          /\ ~gate.user.isNull
          /\ \E u \in StoredAs(reqs[p].arg.username) :
               /\ gate.user.id = u.id
               /\ gate.user.username = u.username

\* A register and a login have both returned a token, for a username with a
\* character that JSON escapes.
C5_Witness ==
  \E p, q \in Procs :
    /\ reqs[p].op = "register" /\ reqs[p].status = 200
    /\ reqs[q].op = "login" /\ reqs[q].status = 200
    /\ \E i \in DOMAIN reqs[q].arg.username : reqs[q].arg.username[i] = "\""

(* ------------------------------ claims: protected routes -------------- *)

\* Client p's request arrives in this step.
Arrives(p) == ~Pending(p) /\ reqs'[p] # reqs[p]

\* Client p's request is answered in this step.
Answered(p) == Pending(p) /\ reqs'[p].pc = "done"

\* A header that is missing, does not start with "Bearer ", or whose token is no
\* base64 of a JSON text.
NotDecodable(hdr) ==
  \/ hdr = NoHeader
  \/ ~StartsAt(hdr, 1, Bearer)
  \/ LET bin == atob(splitSpace(hdr, <<>>)[2])
     IN ~bin.ok \/ ~parseJSON(bin.val).ok

\* C4: a request to a recipe route or a user route whose Authorization header is
\* missing, does not start with "Bearer ", or carries a token that cannot be
\* decoded, is answered 401 at once: no statement of the route's handler runs and
\* no table and no blob changes.
C4_UnauthenticatedRejected ==
  [][\A p \in Procs :
       (Arrives(p) /\ reqs'[p].op \in ProtectedRoutes /\ NotDecodable(reqs'[p].hdr))
       => /\ reqs'[p].pc = "done"
          /\ reqs'[p].status = 401
          /\ UNCHANGED <<db, blobs>>]_vars

\* A request with a Bearer token that cannot be decoded was answered 401 while a
\* recipe was stored.
C4_Witness ==
  \E p \in Procs :
    /\ reqs[p].op \in ProtectedRoutes /\ reqs[p].status = 401
    /\ StartsAt(reqs[p].hdr, 1, Bearer) /\ reqs[p].hdr # Bearer
    /\ recipes # {}

\* C6: once a delete of a recipe by its owner has been answered 200, no recipe
\* row, ingredient row, instruction row or favorite row with that recipe's id is
\* stored.
C6_DeleteCascades ==
  \A p \in Procs :
    (reqs[p].op = "deleteRecipe" /\ reqs[p].pc = "done" /\ reqs[p].status = 200)
    => /\ RecipesById(reqs[p].arg.id) = {}
       /\ RowsOf(ingredients, reqs[p].arg.id) = EmptyBag
       /\ RowsOf(instructions, reqs[p].arg.id) = EmptyBag
       /\ RowsOf(userFavorites, reqs[p].arg.id) = EmptyBag

\* A delete was answered 200 while an update of the same recipe by its owner was
\* in flight; the update then failed.
C6_Witness ==
  \E p, q \in Procs :
    /\ reqs[p].op = "deleteRecipe" /\ reqs[p].pc = "done" /\ reqs[p].status = 200
    /\ reqs[q].op = "updateRecipe" /\ reqs[q].pc = "done" /\ reqs[q].status = 500
    /\ reqs[q].arg.id = reqs[p].arg.id /\ ~reqs[q].user.isNull

\* A toggle by one user of one recipe, run alone on the favorites favs: its select
\* and then its delete or insert.
SerialToggle(favs, userId, id) ==
  ToggleWritten(favs, userId, id, FavoriteExists(favs, userId, id))

\* C7: two successful toggles by the same user of the same stored recipe, one
\* after the other with nothing in between, leave the favorite rows as they were;
\* and the write of a toggle that runs alone flips the existence of the row of
\* that user and recipe and changes no other row.
C7_ToggleTwiceRestores ==
  /\ [](\A u \in users, id \in RecipeIds :
          RecipesById(id) # {}
          => LET first == SerialToggle(userFavorites, u.id, id)
                 second == SerialToggle(first.val, u.id, id)
             IN (first.ok /\ second.ok) => second.val = userFavorites)
  /\ [][\A p \in Procs :
          (Answered(p) /\ reqs[p].op = "toggleFavorite" /\ reqs'[p].status = 200)
          => LET userId == reqs[p].user.id
                 id == reqs[p].arg.id
             IN /\ FavoriteExists(userFavorites', userId, id)
                     = ~FavoriteExists(userFavorites, userId, id)
                /\ FavoritesWithout(userFavorites', userId, id)
                     = FavoritesWithout(userFavorites, userId, id)
                /\ UNCHANGED <<users, recipes, ingredients, instructions>>]_vars

\* A toggle that found the favorite row has removed it, and the favorite row of
\* another user for the same recipe is still stored.
C7_Witness ==
  \E p \in Procs :
    /\ reqs[p].op = "toggleFavorite" /\ reqs[p].pc = "done" /\ reqs[p].status = 200
    /\ reqs[p].loc.favorite
    /\ ~FavoriteExists(userFavorites, reqs[p].user.id, reqs[p].arg.id)
    /\ RowsOf(userFavorites, reqs[p].arg.id) # EmptyBag

\* C8: when an update that ran with no other request in flight is answered 200,
\* the stored ingredients and instructions of the recipe are exactly the rows of
\* the request's lists, an empty list leaving no row.
C8_UpdateReplacesChildren ==
  [][\A p \in Procs :
       (Answered(p) /\ reqs[p].op = "updateRecipe" /\ reqs'[p].status = 200)
       => LET id == reqs[p].arg.id
              body == reqs[p].arg.body
          IN /\ RowsOf(ingredients', id) = ChildRows(id, body.ingredients)
             /\ RowsOf(instructions', id) = ChildRows(id, body.instructions)]_vars

\* An update with an empty ingredient list was answered 200: the recipe has
\* instructions and no ingredient.
C8_Witness ==
  \E p \in Procs :
    /\ reqs[p].op = "updateRecipe" /\ reqs[p].pc = "done" /\ reqs[p].status = 200
    /\ RowsOf(ingredients, reqs[p].arg.id) = EmptyBag
    /\ RowsOf(instructions, reqs[p].arg.id) # EmptyBag

\* C10: the user_favorites table never holds two rows for one user and recipe.
C10_FavoritePairUnique ==
  \A row \in DOMAIN userFavorites : userFavorites[row] = 1

\* Two toggles of one user for one recipe both found no favorite row; the insert
\* of one succeeded and the insert of the other was refused.
C10_Witness ==
  \E p, q \in Procs :
    /\ reqs[p].op = "toggleFavorite" /\ reqs[p].pc = "done" /\ reqs[p].status = 200
    /\ reqs[q].op = "toggleFavorite" /\ reqs[q].pc = "done" /\ reqs[q].status = 500
    /\ ~reqs[p].loc.favorite /\ ~reqs[q].loc.favorite
    /\ reqs[p].user = reqs[q].user /\ ~reqs[p].user.isNull
    /\ reqs[p].arg.id = reqs[q].arg.id
    /\ FavoriteExists(userFavorites, reqs[p].user.id, reqs[p].arg.id)

\* C9: a step that changes or deletes a recipe's row or changes its child rows
\* belongs to a request whose authenticated user is the recipe's owner, and a step
\* that changes a user's row belongs to a request authenticated as that user.
C9_OnlyOwnerChanges ==
  [][\A p \in Procs :
       reqs'[p] # reqs[p]
       => /\ \A row \in recipes :
               (\/ row \notin recipes'
                \/ RowsOf(ingredients', row.id) # RowsOf(ingredients, row.id)
                \/ RowsOf(instructions', row.id) # RowsOf(instructions, row.id))
               => (~reqs'[p].user.isNull /\ reqs'[p].user.id = row.userId)
          /\ \A u \in users :
               u \notin users' => (~reqs'[p].user.isNull /\ reqs'[p].user.id = u.id)]_vars

(* ------------------------------ claims: concurrency ------------------- *)

\* Clients p and q sent toggles of the same recipe as the same user, and the
\* selects of both returned the same existence result.
SameRead(p, q) ==
  /\ p # q
  /\ reqs[p].op = "toggleFavorite" /\ reqs[q].op = "toggleFavorite"
  /\ ~reqs[p].user.isNull /\ reqs[p].user = reqs[q].user
  /\ reqs[p].arg.id = reqs[q].arg.id
  /\ reqs[p].loc.favorite = reqs[q].loc.favorite

\* C11: the toggle is not atomic. When two toggles of the same user and recipe
\* have read the same existence result and the first has written (the row's
\* existence is now the opposite of what both read), the write of the second does
\* not flip it back: the favorite state ends as the opposite of the original
\* state, which two toggles run one after the other would restore.
C11_ToggleRace ==
  [][\A p, q \in Procs :
       (/\ SameRead(p, q)
        /\ reqs[p].pc = "done" /\ reqs[p].status = 200
        /\ reqs[q].pc = "toggleWrite" /\ reqs'[q].pc = "done"
        /\ FavoriteExists(userFavorites, reqs[q].user.id, reqs[q].arg.id)
             # reqs[q].loc.favorite)
       => FavoriteExists(userFavorites', reqs[q].user.id, reqs[q].arg.id)
            # reqs[q].loc.favorite]_vars

\* Two toggles of the same user and recipe both found no favorite row; both have
\* ended, one with 200 and one with 500, and the row is stored.
C11_Witness ==
  \E p, q \in Procs :
    /\ SameRead(p, q)
    /\ reqs[p].pc = "done" /\ reqs[p].status = 200
    /\ reqs[q].pc = "done" /\ reqs[q].status = 500
    /\ ~reqs[p].loc.favorite
    /\ FavoriteExists(userFavorites, reqs[p].user.id, reqs[p].arg.id)

(* ------------------------------ claims: errors ------------------------ *)

\* A row of the list lacks a column.
HasMissing(list) ==
  \E i \in 1..Len(list) : \E f \in DOMAIN list[i] \cap TextColumns : list[i][f] = Missing

Thrown(p) == reqs[p].arg.body.err
AnsweredError(p) == reqs[p].op = "onError" /\ reqs[p].pc = "thrown" /\ reqs'[p].pc = "done"

\* C13, as stated: an ApiError is answered with its own status code and message,
\* and every other error with status 500.
C13_OtherErrors500 ==
  [][\A p \in Procs :
       AnsweredError(p)
       => IF Thrown(p).isApiError
          THEN /\ reqs'[p].status = Thrown(p).statusCode
               /\ reqs'[p].loc.error = Thrown(p).message
          ELSE reqs'[p].status = 500]_vars

\* C13, amended: an ApiError is answered with its own status code and message, an
\* error named ValidationError that is not an ApiError with status 400, and every
\* other error with status 500.
C13_ErrorStatus ==
  [][\A p \in Procs :
       AnsweredError(p)
       => IF Thrown(p).isApiError
          THEN /\ reqs'[p].status = Thrown(p).statusCode
               /\ reqs'[p].loc.error = Thrown(p).message
          ELSE IF Thrown(p).name = "ValidationError" THEN reqs'[p].status = 400
          ELSE reqs'[p].status = 500]_vars

\* An error named ValidationError that is not an ApiError was answered with 400.
C13_Witness ==
  \E p \in Procs :
    /\ reqs[p].op = "onError" /\ reqs[p].pc = "done"
    /\ ~Thrown(p).isApiError /\ Thrown(p).name = "ValidationError"
    /\ reqs[p].status = 400

\* C14, as stated: the cause of an ApiError is in the response whenever there is
\* one and the environment is not production, and never in production.
C14_DetailsOutsideProduction ==
  [][\A p \in Procs :
       (AnsweredError(p) /\ Thrown(p).isApiError)
       => reqs'[p].loc.hasDetails
            = (Thrown(p).hasCause /\ reqs[p].arg.body.env # "production")]_vars

\* C14, amended: the cause of an ApiError is in the response exactly when there
\* is one and the environment is development; so never in production, and not in
\* any other environment either.
C14_DetailsInDevelopment ==
  [][\A p \in Procs :
       (AnsweredError(p) /\ Thrown(p).isApiError)
       => /\ reqs'[p].loc.hasDetails
               = (Thrown(p).hasCause /\ reqs[p].arg.body.env = "development")
          /\ reqs'[p].loc.hasDetails => reqs'[p].loc.details = Thrown(p).cause]_vars

\* An ApiError with a cause was answered without it in an environment that is
\* neither development nor production.
C14_Witness ==
  \E p \in Procs :
    /\ reqs[p].op = "onError" /\ reqs[p].pc = "done"
    /\ Thrown(p).isApiError /\ Thrown(p).hasCause
    /\ reqs[p].arg.body.env = "test"
    /\ ~reqs[p].loc.hasDetails

(* ------------------------------ claims: images ------------------------ *)

\* Client p's request of an image upload arrives in this step.
UploadArrives(p) ==
  Arrives(p) /\ reqs'[p].op \in {"uploadRecipeImage", "uploadUserImage"}

\* The file of an upload has a type other than jpeg, png and gif, or more than
\* 5 MB; and a file of an accepted type with exactly 5 MB.
BadFile(upload) ==
  /\ upload.image.present
  /\ \/ upload.image.type \notin {"image/jpeg", "image/png", "image/gif"}
     \/ upload.image.size > 5 * 1024 * 1024

LargestFile(upload) ==
  /\ upload.contentType = "multipart/form-data"
  /\ upload.image.present
  /\ upload.image.type \in {"image/jpeg", "image/png", "image/gif"}
  /\ upload.image.size = 5 * 1024 * 1024

\* The recipe a recipe image upload names is stored (a profile upload names none).
UploadTargetStored(r) ==
  r.op = "uploadRecipeImage" => RecipesById(r.arg.id) # {}

\* C15, as stated: every profile or recipe image upload whose file has a type
\* that is not accepted or more than 5 MB is answered 400 with the tables and the
\* blob store unchanged, and a file of exactly 5 MB is not refused.
C15_BadFileAlways400 ==
  [][\A p \in Procs :
       UploadArrives(p)
       => /\ BadFile(reqs'[p].arg.body)
             => /\ reqs'[p].pc = "done" /\ reqs'[p].status = 400
                /\ UNCHANGED <<db, blobs>>
          /\ (LargestFile(reqs'[p].arg.body) /\ UploadTargetStored(reqs'[p]))
             => reqs'[p].status # 400]_vars

\* C15, amended: a profile image upload, or an image upload for a stored recipe,
\* whose file has a type that is not accepted or more than 5 MB is answered 400;
\* an upload for a recipe that is not stored is answered 404 whatever its file;
\* in both cases the tables and the blob store are unchanged; and a file of
\* exactly 5 MB is not refused.
C15_BadFileRejected ==
  [][\A p \in Procs :
       UploadArrives(p)
       => /\ (BadFile(reqs'[p].arg.body) /\ UploadTargetStored(reqs'[p]))
             => /\ reqs'[p].pc = "done" /\ reqs'[p].status = 400
                /\ UNCHANGED <<db, blobs>>
          /\ ~UploadTargetStored(reqs'[p])
             => /\ reqs'[p].pc = "done" /\ reqs'[p].status = 404
                /\ UNCHANGED <<db, blobs>>
          /\ (LargestFile(reqs'[p].arg.body) /\ UploadTargetStored(reqs'[p]))
             => reqs'[p].status # 400]_vars

\* An image upload with a file of more than 5 MB for a recipe that is not stored
\* was answered 404.
C15_Witness ==
  \E p \in Procs :
    /\ reqs[p].op = "uploadRecipeImage" /\ reqs[p].pc = "done"
    /\ reqs[p].status = 404
    /\ BadFile(reqs[p].arg.body)
    /\ reqs[p].arg.body.image.size > 5 * 1024 * 1024

\* Client p's profile image upload is answered in this step by its last statement.
ProfileUploadEnds(p) ==
  /\ reqs[p].op = "uploadUserImage" /\ reqs[p].pc = "updateUserImage"
  /\ reqs'[p].pc = "done"

\* C16: when a profile image upload of a user who had an image ends with 200 and
\* its delete call succeeded, no blob of the store is the one the previous
\* imageUrl names (the new image being another one).
C16_PreviousBlobGone ==
  [][\A p \in Procs :
       (/\ ProfileUploadEnds(p) /\ reqs'[p].status = 200
        /\ reqs[p].loc.imageUrl # <<>>
        /\ reqs[p].loc.deleted
        /\ reqs[p].loc.imageUrl # ImageUrl(reqs[p].loc.key))
       => \A key \in blobs' : ImageUrl(key) # reqs[p].loc.imageUrl]_vars

\* C17: when the delete of the previous image fails in a profile image upload, the
\* request goes on to its update, ends with 200, and the imageUrl of the user is
\* the URL of the blob this request stored.
C17_DeleteFailureHidden ==
  [][\A p \in Procs :
       /\ (/\ reqs[p].op = "uploadUserImage" /\ reqs[p].pc = "deleteOld"
           /\ reqs'[p] # reqs[p] /\ ~reqs'[p].loc.deleted)
          => /\ reqs'[p].pc = "updateUserImage"
             /\ UNCHANGED <<db, blobs>>
       /\ (/\ ProfileUploadEnds(p)
           /\ reqs[p].loc.imageUrl # <<>> /\ ~reqs[p].loc.deleted)
          => /\ reqs'[p].status = 200
             /\ reqs[p].loc.key \in blobs'
             /\ \A u \in users' :
                  u.username = reqs[p].user.username
                  => u.imageUrl = ImageUrl(reqs[p].loc.key)]_vars

\* A profile image upload of a user who had an image ended with 200 although its
\* delete call failed, and the user has the new imageUrl.
C17_Witness ==
  \E p \in Procs :
    /\ reqs[p].op = "uploadUserImage" /\ reqs[p].pc = "done" /\ reqs[p].status = 200
    /\ reqs[p].loc.imageUrl # <<>> /\ ~reqs[p].loc.deleted
    /\ reqs[p].loc.imageUrl # ImageUrl(reqs[p].loc.key)
    /\ \E u \in users :
         u.username = reqs[p].user.username /\ u.imageUrl = ImageUrl(reqs[p].loc.key)

\* C18: a GET of the imageUrl that an upload stored in a row, while the blob the
\* upload wrote is in the store, is answered 200 with the object of the key the
\* upload wrote.
C18_ImageUrlServed ==
  [][\A p \in Procs :
       (/\ Arrives(p) /\ reqs'[p].op = "getImage"
        /\ \E key \in blobs : ImageUrl(key) = reqs'[p].arg.id)
       => /\ reqs'[p].status = 200
          /\ ImageUrl(reqs'[p].loc.key) = reqs'[p].arg.id]_vars

(* ------------------------------ claims: lists ------------------------- *)

\* The text contains lit as a substring (the characters compared as they are).
Contains(text, lit) == \E i \in 1..(Len(text) + 1) : StartsAt(text, i, lit)

\* Each id of the set once.
Once(ids) == [id \in ids |-> 1]

\* C19: a list request with a search term is answered with the stored recipes
\* whose name contains the term as a substring, each once, and no others; a list
\* request without a search term with every stored recipe once.
C19_ListBySubstring ==
  [][\A p \in Procs :
       (Arrives(p) /\ reqs'[p].op = "listRecipes" /\ reqs'[p].status = 200)
       => LET search == reqs'[p].arg.id
          IN reqs'[p].loc.rows =
               Once({r.id : r \in {row \in recipes :
                                     \/ search = NoSearch
                                     \/ Contains(NameChars[row.name], search)}})]_vars

\* C20: GET /favorites/:username is answered with exactly the recipes that have a
\* favorite row of the named user, whoever owns them, each once; and so with the
\* rows GET /favorites/me gives when the caller is the named user.
C20_FavoritesOfNamedUser ==
  [][\A p \in Procs :
       (Arrives(p) /\ reqs'[p].op = "listFavoritesOf" /\ reqs'[p].status = 200)
       => LET username == reqs'[p].arg.id
              named == {u \in users : u.username = username}
          IN /\ reqs'[p].loc.rows =
                  Once({f.recipeId : f \in {x \in DOMAIN userFavorites :
                                              \E u \in named : x.userId = u.id}})
             /\ (~reqs'[p].user.isNull /\ reqs'[p].user.username = username)
                => reqs'[p].loc.rows = FavoritesMeRows(reqs'[p].user.id)]_vars

(* ------------------------------ claims: remaining --------------------- *)

\* C21: when the delete of a recipe that had an uploaded image ends with 200 and
\* its delete call to the blob store succeeded, no blob of the store is the one
\* the recipe's imageUrl names.
C21_RecipeBlobGone ==
  [][\A p \in Procs :
       (/\ reqs[p].op = "deleteRecipe" /\ reqs[p].pc = "deleteBlob"
        /\ reqs'[p].pc = "done" /\ reqs'[p].status = 200
        /\ reqs'[p].loc.deleted)
       => \A key \in blobs' : ImageUrl(key) # reqs[p].loc.imageUrl]_vars

\* C22: of two concurrent register requests whose usernames have the same
\* lower-cased, trimmed form, one creates the user and the other is rejected with
\* 400 in every interleaving: a register request that reaches its insert after
\* another one stored that username creates no second user and ends with 400.
C22_ConcurrentRegister400 ==
  [][\A q \in Procs :
       (/\ reqs[q].op = "register" /\ reqs[q].pc = "insertUser"
        /\ reqs'[q].pc = "done"
        /\ StoredAs(reqs[q].arg.username) # {})
       => /\ users' = users
          /\ Cardinality(StoredAs(reqs[q].arg.username)) = 1
          /\ reqs'[q].status = 400]_vars

\* C23: when two updates of the same recipe, sent by its owner from two clients,
\* have both ended with 200, the ingredients of the recipe are the ingredient list
\* of one of the two bodies and its instructions the instruction list of one of
\* the two bodies, never rows of both.
C23_ConcurrentUpdateOnePayload ==
  \A p, q \in Procs :
    (/\ p # q
     /\ reqs[p].op = "updateRecipe" /\ reqs[q].op = "updateRecipe"
     /\ reqs[p].pc = "done" /\ reqs[q].pc = "done"
     /\ reqs[p].status = 200 /\ reqs[q].status = 200
     /\ reqs[p].arg.id = reqs[q].arg.id
     /\ RecipesById(reqs[p].arg.id) # {})
    => LET id == reqs[p].arg.id
       IN /\ RowsOf(ingredients, id) \in
               {ChildRows(id, reqs[p].arg.body.ingredients),
                ChildRows(id, reqs[q].arg.body.ingredients)}
          /\ RowsOf(instructions, id) \in
               {ChildRows(id, reqs[p].arg.body.instructions),
                ChildRows(id, reqs[q].arg.body.instructions)}

\* Client p takes in this step the insert of child rows of its request: the
\* ingredients or instructions of a create or an update, or the favorite row of a
\* toggle that found none.
InsertsChildRows(p) ==
  /\ reqs'[p] # reqs[p]
  /\ \/ reqs[p].op = "createRecipe"
          /\ reqs[p].pc \in {"createIngredients", "createInstructions"}
     \/ reqs[p].op = "updateRecipe"
          /\ reqs[p].pc \in {"insertIngredients", "insertInstructions"}
     \/ reqs[p].op = "toggleFavorite" /\ reqs[p].pc = "toggleWrite"
          /\ ~reqs[p].loc.favorite

\* C24: in every reachable state, under the interleavings of create, update,
\* delete and toggle requests, every ingredient, instruction and favorite row has
\* the id of a stored recipe; and an insert of child rows for a recipe that is
\* not stored changes no table and ends its request with 500.
C24_ChildRowsReferToRecipes ==
  /\ [](\A row \in DOMAIN ingredients \cup DOMAIN instructions \cup DOMAIN userFavorites :
          \E r \in recipes : r.id = row.recipeId)
  /\ [][\A p \in Procs :
          (InsertsChildRows(p) /\ RecipesById(reqs[p].arg.id) = {})
          => /\ reqs'[p].pc = "done" /\ reqs'[p].status = 500
             /\ UNCHANGED db]_vars

\* A toggle that found no favorite row ended with 500 after another request
\* deleted the recipe, and no favorite row is stored for it.
C24_Witness ==
  \E p, q \in Procs :
    /\ reqs[p].op = "toggleFavorite" /\ reqs[p].pc = "done" /\ reqs[p].status = 500
    /\ ~reqs[p].user.isNull /\ ~reqs[p].loc.favorite
    /\ reqs[q].op = "deleteRecipe" /\ reqs[q].pc = "done" /\ reqs[q].status = 200
    /\ reqs[q].arg.id = reqs[p].arg.id
    /\ RecipesById(reqs[p].arg.id) = {}
    /\ RowsOf(userFavorites, reqs[p].arg.id) = EmptyBag

====
